---- MODULE Spec2Model ----
(***************************************************************************)
(* Model of the grid-packing engine (src/src/utils/grid.ts) and of the     *)
(* overflow-status bookkeeping of ScrollArea                                *)
(* (src/src/components/ScrollArea.tsx).                                     *)
(*                                                                          *)
(* The grid functions are pure; each is an operator computed the way the    *)
(* code computes it, and each exported function has one action that applies *)
(* it to the inputs drawn in Init and records what it returned or threw.    *)
(*                                                                          *)
(* A JavaScript array is a function from its keys to its values: the        *)
(* indices 0..length-1 and, after a write such as row[-1] = true, any other *)
(* property key.  Reading a missing key yields undefined (falsy); reading a *)
(* property of undefined throws a TypeError.                                *)
(***************************************************************************)
EXTENDS Integers, Sequences, FiniteSets, TLC

VARIABLES
    \* grid.ts: the arguments of a call, the function called and its outcome
    grid, layout, item, arr, position, allowOverlay, call, ret,
    \* ScrollArea.tsx: the viewport element, the component's refs and props
    el, mounted, viewportRef, horizontalOverflowRef, verticalOverflowRef,
    onHorizontalOverflowStatusChange, onVerticalOverflowStatusChange,
    \* what each resize notification measured, and the calls the two handlers
    \* received (at which notification, with which value)
    measured, horizontalCalls, verticalCalls

gridVars == <<grid, layout, item, arr, position, allowOverlay, call, ret>>
scrollVars == <<el, mounted, viewportRef, horizontalOverflowRef, verticalOverflowRef,
                onHorizontalOverflowStatusChange, onVerticalOverflowStatusChange,
                measured, horizontalCalls, verticalCalls>>
vars == <<gridVars, scrollVars>>

(* ------------------------------ bounds ------------------------------- *)
\* grids have 0..MaxDim columns and 0..MaxDim rows
MaxDim == 2
\* layouts have 0..MaxLen items
MaxLen == 2
\* boxSize ranges over 1..MaxBox
MaxBox == 2
\* query pixel coordinates range over -1..MaxPixel
MaxPixel == 3
\* clientWidth, scrollWidth, clientHeight, scrollHeight range over 0..MaxExtent
MaxExtent == 1
\* at most MaxEvents resize notifications are delivered
MaxEvents == 4
\* width and height of an item
Sizes == 1 .. 2

(* ------------------------- results of a call -------------------------- *)
\* what the array holds before a write and what a call leaves in ret
NoValue == "none"
Returned(v) == [tag |-> "ok", value |-> v]
\* throw new Error('elements in layout have overlay')
OverlayError == [tag |-> "Error", value |-> "elements in layout have overlay"]
\* reading a property of undefined
TypeError == [tag |-> "TypeError", value |-> "undefined"]
\* return false
ReturnedFalse == [tag |-> "false", value |-> NoValue]
\* { ...a, ...b }
Spread(a, b) == [k \in DOMAIN a \cup DOMAIN b |-> IF k \in DOMAIN b THEN b[k] ELSE a[k]]

(* --------------------------- JS arrays -------------------------------- *)
\* array.length of an array whose indices are contiguous from 0
Length(a) == Cardinality({k \in DOMAIN a : k >= 0})
\* Array(n).map(f)
ArrayOf(n, v) == [k \in 0 .. n - 1 |-> v]
\* a[k]: undefined (falsy) when a has no key k
Get(a, k) == IF k \in DOMAIN a THEN a[k] ELSE FALSE
\* a[k] = v: adds the property when it is missing; the length is unchanged
\* for k < 0
Put(a, k, v) == [i \in DOMAIN a \cup {k} |-> IF i = k THEN v ELSE a[i]]

(* ------------------------------ grid.ts ------------------------------- *)
layoutItemToSectors(it) ==
    [k \in 1 .. it.width * it.height |->
        [x |-> it.x + ((k - 1) \div it.height),
         y |-> it.y + ((k - 1) % it.height)]]

\* MarkSector without the overlay check
MarkSectorNoThrow(g, allow, st, s) ==
    IF st.tag # "ok" THEN st
    ELSE IF s.x >= g.columns \/ s.y >= g.rows THEN st
    ELSE IF s.y \notin DOMAIN st.value THEN TypeError
    ELSE Returned([st.value EXCEPT ![s.y] = Put(@, s.x, TRUE)])

\* the body of itemSectors.forEach in layoutTo2DArray, on state st = the
\* result so far (a thrown error ends the whole call)
MarkSector(g, allow, st, s) ==
    IF st.tag # "ok" THEN st
    ELSE IF s.x >= g.columns \/ s.y >= g.rows THEN st
    ELSE IF s.y \notin DOMAIN st.value THEN TypeError
    ELSE IF Get(st.value[s.y], s.x) /\ ~allow THEN OverlayError
    ELSE Returned([st.value EXCEPT ![s.y] = Put(@, s.x, TRUE)])

RECURSIVE MarkSectors(_, _, _, _, _)
MarkSectors(g, allow, st, secs, k) ==
    IF k > Len(secs) THEN st
    ELSE MarkSectors(g, allow, MarkSector(g, allow, st, secs[k]), secs, k + 1)

RECURSIVE MarkItems(_, _, _, _, _)
MarkItems(g, allow, st, lay, k) ==
    IF k > Len(lay) THEN st
    ELSE MarkItems(g, allow,
                   MarkSectors(g, allow, st, layoutItemToSectors(lay[k]), 1),
                   lay, k + 1)

layoutTo2DArray(g, lay, allow) ==
    MarkItems(g, allow, Returned(ArrayOf(g.rows, ArrayOf(g.columns, FALSE))), lay, 1)

RECURSIVE OverlayFrom(_, _, _)
OverlayFrom(a, secs, k) ==
    IF k > Len(secs) THEN Returned(FALSE)
    ELSE LET sector == secs[k] IN
         IF Length(a) <= sector.y THEN OverlayFrom(a, secs, k + 1)
         ELSE IF sector.y \notin DOMAIN a THEN TypeError
         ELSE IF Length(a[sector.y]) <= sector.x THEN OverlayFrom(a, secs, k + 1)
         ELSE IF Get(a[sector.y], sector.x) THEN Returned(TRUE)
         ELSE OverlayFrom(a, secs, k + 1)

\* willItemOverlay that looks at the origin cell only
OverlayAtOrigin(a, it) ==
    OverlayFrom(a, layoutItemToSectors(Spread(it, [width |-> 1, height |-> 1])), 1)

willItemOverlay(a, it) == OverlayFrom(a, layoutItemToSectors(it), 1)

\* const overflow = (j + item.width > grid.columns) || (i + item.height > grid.rows)
PlacementOverflows(g, it, i, j) ==
    (j + it.width > g.columns) \/ (i + it.height > g.rows)

\* the scan with the loops exchanged: columns outside, rows inside
RECURSIVE ScanColumnsFrom(_, _, _, _, _)
ScanColumnsFrom(g, a, it, i, j) ==
    IF Length(a) = 0 \/ j >= Length(a[0]) THEN ReturnedFalse
    ELSE IF i >= Length(a) THEN ScanColumnsFrom(g, a, it, 0, j + 1)
    ELSE IF Get(a[i], j) THEN ScanColumnsFrom(g, a, it, i + 1, j)
    ELSE LET overlay == willItemOverlay(a, Spread(it, [x |-> j, y |-> i]))
             overflow == PlacementOverflows(g, it, i, j)
         IN  IF overlay.tag # "ok" THEN overlay
             ELSE IF overlay.value \/ overflow THEN ScanColumnsFrom(g, a, it, i + 1, j)
             ELSE Returned([x |-> j, y |-> i])

\* the two nested loops of findPositionForItemInGrid, from row i, column j
RECURSIVE ScanFrom(_, _, _, _, _)
ScanFrom(g, a, it, i, j) ==
    IF i >= Length(a) THEN ReturnedFalse
    ELSE IF j >= Length(a[i]) THEN ScanFrom(g, a, it, i + 1, 0)
    ELSE IF Get(a[i], j) THEN ScanFrom(g, a, it, i, j + 1)
    ELSE LET overlay == willItemOverlay(a, Spread(it, [x |-> j, y |-> i]))
             overflow == PlacementOverflows(g, it, i, j)
         IN  IF overlay.tag # "ok" THEN overlay
             ELSE IF overlay.value \/ overflow THEN ScanFrom(g, a, it, i, j + 1)
             ELSE Returned([x |-> j, y |-> i])

findPositionForItemInGrid(g, lay, it) ==
    LET built == layoutTo2DArray(g, lay, FALSE) IN
    IF built.tag # "ok" THEN built ELSE ScanFrom(g, built.value, it, 0, 0)

\* distanceBetweenPoints is Math.hypot(dx, dy); the comparator only uses the
\* sign of a difference of two distances, which is the sign of the difference
\* of their squares
SquaredDistance(p1, p2) ==
    (p2.x - p1.x) * (p2.x - p1.x) + (p2.y - p1.y) * (p2.y - p1.y)

\* the comparator with its operands exchanged
CompareSnapPointsReversed(a, b, pos) ==
    SquaredDistance(b.pixelPosition, pos) - SquaredDistance(a.pixelPosition, pos)

\* the comparator handed to sort: negative, zero or positive
CompareSnapPoints(a, b, pos) ==
    SquaredDistance(a.pixelPosition, pos) - SquaredDistance(b.pixelPosition, pos)

\* [...Array(rows)].flatMap((_, row) => [...Array(columns)].map((__, column) => ...))
possibleSnapPoints(g) ==
    [k \in 1 .. g.rows * g.columns |->
        LET row == (k - 1) \div g.columns
            column == (k - 1) % g.columns
        IN  [pixelPosition |-> [x |-> column * g.boxSize, y |-> row * g.boxSize],
             position |-> [x |-> column, y |-> row]]]

\* Array.prototype.sort is stable: an element goes after every element that
\* does not compare greater than it
RECURSIVE InsertSnapPoint(_, _, _, _)
InsertSnapPoint(sorted, e, pos, k) ==
    IF k > Len(sorted) THEN Append(sorted, e)
    ELSE IF CompareSnapPoints(sorted[k], e, pos) > 0
         THEN SubSeq(sorted, 1, k - 1) \o <<e>> \o SubSeq(sorted, k, Len(sorted))
         ELSE InsertSnapPoint(sorted, e, pos, k + 1)

RECURSIVE SortSnapPoints(_, _, _, _)
SortSnapPoints(points, pos, sorted, k) ==
    IF k > Len(points) THEN sorted
    ELSE SortSnapPoints(points, pos, InsertSnapPoint(sorted, points[k], pos, 1), k + 1)

snapToSector(g, pos) == Returned(SortSnapPoints(possibleSnapPoints(g), pos, <<>>, 1))

\* an overflow test that takes every item for overflowing
AlwaysOverflows(g, it) == TRUE

\* an overflow test that forgets the rows
ItemOverflowsColumns(g, it) == it.x + it.width > g.columns

\* const overflow = (item.x + item.width > grid.columns) || (item.y + item.height > grid.rows)
ItemOverflows(g, it) ==
    (it.x + it.width > g.columns) \/ (it.y + it.height > g.rows)

\* a filter that removes nothing
WithoutNothing(lay, it) == lay

\* newLayout.filter(i => i !== item): items are compared by object identity,
\* which the field ref stands for
WithoutItem(lay, it) == SelectSeq(lay, LAMBDA i : i.ref # it.ref)

\* { ...item, ...position } is a new object: it gets an identity of its own
Relocated(it, pos, fresh) == Spread(Spread(it, pos), [ref |-> fresh])

\* the loop of fixHorizontalOverflows from the k-th item of the input layout
RECURSIVE FixFrom(_, _, _, _)
FixFrom(g, lay, newLayout, k) ==
    IF k > Len(lay) THEN Returned(newLayout)
    ELSE LET it == lay[k] IN
         IF ~ItemOverflows(g, it) THEN FixFrom(g, lay, newLayout, k + 1)
         ELSE LET filtered == WithoutItem(newLayout, it)
                  found == findPositionForItemInGrid(g, filtered, it)
              IN  IF found.tag = "ok"
                  THEN FixFrom(g, lay,
                               Append(filtered, Relocated(it, found.value, Len(lay) + k)),
                               k + 1)
                  ELSE IF found.tag = "false"
                  THEN FixFrom(g, lay, filtered, k + 1)
                  ELSE found

fixHorizontalOverflows(g, lay) == FixFrom(g, lay, lay, 1)

(* ------------------------------ inputs -------------------------------- *)
NoGrid == [columns |-> 0, rows |-> 0, boxSize |-> 1]
NoItem == [width |-> 1, height |-> 1]
NoPosition == [x |-> 0, y |-> 0]
NotCalled == [tag |-> "none", value |-> NoValue]

Grids(boxes) == [columns : 0 .. MaxDim, rows : 0 .. MaxDim, boxSize : boxes]

\* the origins of the items of a layout: the cells of the grid (an item of
\* width 2 in the last column sticks out of it), and for the items that lie
\* wholly outside, whose cells no function looks at, the first cell right of
\* the grid and the first cell below it
Origins(g) ==
    ((0 .. g.columns - 1) \X (0 .. g.rows - 1)) \cup {<<g.columns, 0>>, <<0, g.rows>>}

ItemsFor(g) ==
    {[x |-> o[1], y |-> o[2], width |-> w, height |-> h] :
        o \in Origins(g), w \in Sizes, h \in Sizes}

\* the same with the origins one cell left of and above the grid added
ItemsFromMinusOne(g) ==
    [x : (0 - 1) .. g.columns, y : (0 - 1) .. g.rows, width : Sizes, height : Sizes]

SeqsUpTo(S, n) == UNION {[1 .. k -> S] : k \in 0 .. n}

\* every item of a layout is an object of its own (ref) and carries a
\* payload (id)
WithPayload(lay) == [k \in DOMAIN lay |-> Spread(lay[k], [id |-> k, ref |-> k])]

LayoutsOf(items) == {WithPayload(l) : l \in SeqsUpTo(items, MaxLen)}

NoExtent == [clientWidth |-> 0, scrollWidth |-> 0, clientHeight |-> 0, scrollHeight |-> 0]

ScrollIdle ==
    /\ el = NoExtent
    /\ mounted = "no"
    /\ viewportRef = "null"
    /\ horizontalOverflowRef = FALSE
    /\ verticalOverflowRef = FALSE
    /\ onHorizontalOverflowStatusChange = FALSE
    /\ onVerticalOverflowStatusChange = FALSE
    /\ measured = <<>>
    /\ horizontalCalls = <<>>
    /\ verticalCalls = <<>>

GridIdle ==
    /\ grid = NoGrid
    /\ layout = <<>>
    /\ item = NoItem
    /\ arr = <<>>
    /\ position = NoPosition
    /\ allowOverlay = FALSE
    /\ call = "none"
    /\ ret = NotCalled

\* a grid and a layout whose coordinates are not negative
InitGrid ==
    /\ grid \in Grids({1})
    /\ layout \in LayoutsOf(ItemsFor(grid))
    /\ item = NoItem
    /\ arr = <<>>
    /\ position = NoPosition
    /\ allowOverlay = FALSE
    /\ call = "none"
    /\ ret = NotCalled
    /\ ScrollIdle

(* ------------------------------ actions ------------------------------- *)
CallLayoutTo2DArray ==
    /\ call = "none"
    /\ \E allow \in BOOLEAN :
          /\ allowOverlay' = allow
          /\ ret' = layoutTo2DArray(grid, layout, allow)
    /\ call' = "layoutTo2DArray"
    /\ UNCHANGED <<grid, layout, item, arr, position, scrollVars>>

CallFindPositionForItemInGrid ==
    /\ call = "none"
    /\ \E w \in Sizes, h \in Sizes :
          /\ item' = [width |-> w, height |-> h]
          /\ ret' = findPositionForItemInGrid(grid, layout, item')
    /\ call' = "findPositionForItemInGrid"
    /\ UNCHANGED <<grid, layout, arr, position, allowOverlay, scrollVars>>

CallFixHorizontalOverflows ==
    /\ call = "none"
    /\ ret' = fixHorizontalOverflows(grid, layout)
    /\ call' = "fixHorizontalOverflows"
    /\ UNCHANGED <<grid, layout, item, arr, position, allowOverlay, scrollVars>>

CallWillItemOverlay ==
    /\ call = "none"
    /\ ret' = willItemOverlay(arr, item)
    /\ call' = "willItemOverlay"
    /\ UNCHANGED <<grid, layout, item, arr, position, allowOverlay, scrollVars>>

CallSnapToSector ==
    /\ call = "none"
    /\ ret' = snapToSector(grid, position)
    /\ call' = "snapToSector"
    /\ UNCHANGED <<grid, layout, item, arr, position, allowOverlay, scrollVars>>

\* occupancy construction
SpecBuild == InitGrid /\ [][CallLayoutTo2DArray]_vars
\* placement search
SpecPlace == InitGrid /\ [][CallFindPositionForItemInGrid]_vars
\* overflow repair
SpecRepair == InitGrid /\ [][CallFixHorizontalOverflows]_vars

\* a grid and a layout whose items may start one cell left of or above the grid
InitNegative ==
    /\ grid \in Grids({1})
    /\ layout \in LayoutsOf(ItemsFromMinusOne(grid))
    /\ item = NoItem
    /\ arr = <<>>
    /\ position = NoPosition
    /\ allowOverlay = FALSE
    /\ call = "none"
    /\ ret = NotCalled
    /\ ScrollIdle

\* occupancy construction, negative coordinates included
SpecNegative == InitNegative /\ [][CallLayoutTo2DArray]_vars

\* every boolean matrix of up to MaxDim rows of up to MaxDim cells
Matrices ==
    UNION {[0 .. r - 1 -> [0 .. c - 1 -> BOOLEAN]] : r \in 0 .. MaxDim, c \in 0 .. MaxDim}

InitOverlay ==
    /\ grid = NoGrid
    /\ layout = <<>>
    /\ arr \in Matrices
    /\ item \in [x : (0 - 1) .. MaxDim, y : (0 - 1) .. MaxDim, width : Sizes, height : Sizes]
    /\ position = NoPosition
    /\ allowOverlay = FALSE
    /\ call = "none"
    /\ ret = NotCalled
    /\ ScrollIdle

\* collision check of a candidate against a matrix
SpecOverlay == InitOverlay /\ [][CallWillItemOverlay]_vars

InitSnap ==
    /\ grid \in Grids(1 .. MaxBox)
    /\ layout = <<>>
    /\ item = NoItem
    /\ arr = <<>>
    /\ position \in [x : (0 - 1) .. MaxPixel, y : (0 - 1) .. MaxPixel]
    /\ allowOverlay = FALSE
    /\ call = "none"
    /\ ret = NotCalled
    /\ ScrollIdle

\* snap ranking
SpecSnap == InitSnap /\ [][CallSnapToSector]_vars

(* ---------------------------- ScrollArea.tsx --------------------------- *)
checkVerticalOverflow(e) == e.clientHeight < e.scrollHeight
checkHorizontalOverflow(e) == e.clientWidth < e.scrollWidth

\* if (newOverflow !== overflowRef.current && handler) handler(newOverflow):
\* the calls a handler has received, after this notification
Notified(calls, newOverflow, current, handler, at) ==
    IF newOverflow # current /\ handler
    THEN Append(calls, [at |-> at, value |-> newOverflow])
    ELSE calls

\* a recording that keeps the first status it was given
RecordedOnce(newOverflow, current) == current

\* overflowRef.current = newOverflow
Recorded(newOverflow, current) == newOverflow

\* onContentResize, run on the viewport as the notification finds it
onContentResize(viewport) ==
    IF viewportRef = "null"
    THEN UNCHANGED <<horizontalOverflowRef, verticalOverflowRef, measured,
                     horizontalCalls, verticalCalls>>
    ELSE LET newHorizontalOverflow == checkHorizontalOverflow(viewport)
             newVerticalOverflow == checkVerticalOverflow(viewport)
         IN  /\ measured' = Append(measured, [horizontal |-> newHorizontalOverflow,
                                               vertical |-> newVerticalOverflow])
             /\ horizontalCalls' =
                    Notified(horizontalCalls, newHorizontalOverflow, horizontalOverflowRef,
                             onHorizontalOverflowStatusChange, Len(measured) + 1)
             /\ verticalCalls' =
                    Notified(verticalCalls, newVerticalOverflow, verticalOverflowRef,
                             onVerticalOverflowStatusChange, Len(measured) + 1)
             /\ horizontalOverflowRef' = Recorded(newHorizontalOverflow, horizontalOverflowRef)
             /\ verticalOverflowRef' = Recorded(newVerticalOverflow, verticalOverflowRef)

Extents ==
    [clientWidth : 0 .. MaxExtent, scrollWidth : 0 .. MaxExtent,
     clientHeight : 0 .. MaxExtent, scrollHeight : 0 .. MaxExtent]

\* the component renders: the viewport ref is attached, then the effect of
\* ResizeObserverComponent observes the content
Mount ==
    /\ mounted = "no"
    /\ mounted' = "yes"
    /\ viewportRef' = "viewport"
    /\ UNCHANGED <<gridVars, el, horizontalOverflowRef, verticalOverflowRef,
                   onHorizontalOverflowStatusChange, onVerticalOverflowStatusChange,
                   measured, horizontalCalls, verticalCalls>>

\* the content is resized and the observer's callback runs onResize
ContentResize ==
    /\ mounted = "yes"
    /\ Len(measured) < MaxEvents
    /\ \E e \in Extents :
          /\ el' = e
          /\ onContentResize(e)
    /\ UNCHANGED <<gridVars, mounted, viewportRef,
                   onHorizontalOverflowStatusChange, onVerticalOverflowStatusChange>>

\* the component goes away: the effect's cleanup disconnects the observer
\* and the ref is cleared
Unmount ==
    /\ mounted = "yes"
    /\ mounted' = "gone"
    /\ viewportRef' = "null"
    /\ UNCHANGED <<gridVars, el, horizontalOverflowRef, verticalOverflowRef,
                   onHorizontalOverflowStatusChange, onVerticalOverflowStatusChange,
                   measured, horizontalCalls, verticalCalls>>

InitScroll ==
    /\ GridIdle
    /\ el = NoExtent
    /\ mounted = "no"
    /\ viewportRef = "null"
    /\ horizontalOverflowRef = FALSE
    /\ verticalOverflowRef = FALSE
    /\ onHorizontalOverflowStatusChange \in BOOLEAN
    /\ onVerticalOverflowStatusChange \in BOOLEAN
    /\ measured = <<>>
    /\ horizontalCalls = <<>>
    /\ verticalCalls = <<>>

NextScroll == Mount \/ ContentResize \/ Unmount

SpecScroll == InitScroll /\ [][NextScroll]_vars

(* ------------------------- vocabulary of the claims -------------------- *)
Cells(it) ==
    {<<x, y>> : x \in it.x .. it.x + it.width - 1, y \in it.y .. it.y + it.height - 1}

InGrid(g) == (0 .. g.columns - 1) \X (0 .. g.rows - 1)

Inside(g, it) ==
    /\ 0 <= it.x /\ it.x + it.width <= g.columns
    /\ 0 <= it.y /\ it.y + it.height <= g.rows

SharedCells(lay) ==
    UNION {Cells(lay[p[1]]) \cap Cells(lay[p[2]]) :
             p \in {q \in (DOMAIN lay) \X (DOMAIN lay) : q[1] # q[2]}}

\* the item extends past the right or the bottom edge of the grid
SticksOut(g, it) == it.x + it.width > g.columns \/ it.y + it.height > g.rows

OverlapFree(lay) == SharedCells(lay) = {}

Covered(lay) == UNION {Cells(lay[k]) : k \in DOMAIN lay}

NonNegative(lay) == \A k \in DOMAIN lay : lay[k].x >= 0 /\ lay[k].y >= 0

\* the origins at which an item of this size is inside the grid and covers
\* no cell that an item of the layout covers
ValidOrigins(g, lay, size) ==
    {p \in [x : 0 .. g.columns - 1, y : 0 .. g.rows - 1] :
        /\ Inside(g, Spread(size, p))
        /\ Cells(Spread(size, p)) \cap Covered(lay) = {}}

RowMajorFirst(S) ==
    CHOOSE p \in S : \A q \in S : p.y < q.y \/ (p.y = q.y /\ p.x <= q.x)

\* an item without its object identity
Shape(it) == [x |-> it.x, y |-> it.y, width |-> it.width, height |-> it.height, id |-> it.id]
Shapes(lay) == [k \in DOMAIN lay |-> Shape(lay[k])]

OverlapFreeInGrid(g, lay) == SharedCells(lay) \cap InGrid(g) = {}

NoOverflow(g, lay) == \A k \in DOMAIN lay : ~SticksOut(g, lay[k])

(* -------------------------------- C1 ----------------------------------- *)
\* C1: a position returned by findPositionForItemInGrid puts the item
\* entirely inside the grid and on no cell covered by an item of the layout.
PlacementIsSound ==
    (call = "findPositionForItemInGrid" /\ ret.tag = "ok") =>
        LET placed == Spread(item, ret.value) IN
        /\ Inside(grid, placed)
        /\ Cells(placed) \cap Covered(layout) = {}

\* an item wider than one cell was placed in a grid that holds two items,
\* past a free cell of an earlier row where it did not fit
PlacementIsSoundWitness ==
    /\ call = "findPositionForItemInGrid" /\ ret.tag = "ok"
    /\ Len(layout) = 2 /\ item.width = 2
    /\ \E c \in InGrid(grid) : c \notin Covered(layout) /\ c[2] < ret.value.y

(* -------------------------------- C2 ----------------------------------- *)
\* C2: on an overlap-free layout findPositionForItemInGrid returns the valid
\* origin with the smallest y and, among those, the smallest x, and returns
\* false exactly when there is no valid origin.
PlacementIsRowMajorFirst ==
    (call = "findPositionForItemInGrid" /\ OverlapFree(layout)) =>
        LET V == ValidOrigins(grid, layout, item) IN
        IF V = {} THEN ret.tag = "false"
        ELSE ret.tag = "ok" /\ ret.value = RowMajorFirst(V)

\* the returned origin is in a row above a valid origin that lies further left
PlacementIsRowMajorFirstWitness ==
    /\ call = "findPositionForItemInGrid" /\ OverlapFree(layout) /\ ret.tag = "ok"
    /\ \E q \in ValidOrigins(grid, layout, item) : q.x < ret.value.x /\ q.y > ret.value.y

(* -------------------------------- C3 ----------------------------------- *)
OverlapOutcome ==
    IF allowOverlay THEN ret.tag = "ok" ELSE ret.tag = "Error"

\* C3 as stated: whenever two items share a cell, layoutTo2DArray throws the
\* overlay error with allowOverlay = false and returns a matrix with
\* allowOverlay = true.
SharedCellIsDetected ==
    (call = "layoutTo2DArray" /\ ~OverlapFree(layout)) => OverlapOutcome

\* C3 amended: whenever two items share a cell inside the grid,
\* layoutTo2DArray throws the overlay error with allowOverlay = false and
\* returns a matrix with allowOverlay = true.
SharedCellInGridIsDetected ==
    (call = "layoutTo2DArray" /\ SharedCells(layout) \cap InGrid(grid) # {}) =>
        OverlapOutcome

\* two items share a cell of the grid and the call without allowOverlay threw
SharedCellInGridIsDetectedWitness ==
    /\ call = "layoutTo2DArray" /\ ~allowOverlay
    /\ SharedCells(layout) \cap InGrid(grid) # {}
    /\ ret.tag = "Error"

(* -------------------------------- C4 ----------------------------------- *)
\* C4: on a layout in which no item overflows the grid, overlapping or not,
\* fixHorizontalOverflows returns the input layout (same items, same order),
\* and repairing that result again returns it once more.
RepairKeepsFittingLayout ==
    (call = "fixHorizontalOverflows" /\ NoOverflow(grid, layout)) =>
        /\ ret.tag = "ok"
        /\ ret.value = layout
        /\ fixHorizontalOverflows(grid, ret.value) = ret

\* two overlapping items, neither overflowing, went through the repair
RepairKeepsFittingLayoutWitness ==
    /\ call = "fixHorizontalOverflows" /\ NoOverflow(grid, layout)
    /\ Len(layout) = 2 /\ ~OverlapFree(layout)
    /\ ret.tag = "ok"

(* -------------------------------- C5 ----------------------------------- *)
\* the input items that stay where they are while the k-th item is moved:
\* those that do not overflow and the overflowing ones not yet processed
\* (the payload id of an input item is its index)
Staying(g, lay, k) == SelectSeq(lay, LAMBDA i : ~SticksOut(g, i) \/ i.id > k)

\* the relocated items, in processing order, from the k-th input item on
RECURSIVE MovedFrom(_, _, _, _)
MovedFrom(g, lay, moved, k) ==
    IF k > Len(lay) THEN moved
    ELSE IF ~SticksOut(g, lay[k]) THEN MovedFrom(g, lay, moved, k + 1)
    ELSE LET slot == findPositionForItemInGrid(g, Staying(g, lay, k) \o moved, lay[k])
         IN  IF slot.tag = "ok"
             THEN MovedFrom(g, lay,
                            Append(moved, [lay[k] EXCEPT !.x = slot.value.x,
                                                         !.y = slot.value.y]),
                            k + 1)
             ELSE MovedFrom(g, lay, moved, k + 1)

\* C5: on an overlap-free layout the result of fixHorizontalOverflows is the
\* non-overflowing items, unchanged and in order, followed by the relocated
\* overflowing items in processing order, each with its width, height and
\* payload and with the slot findPositionForItemInGrid returned against the
\* working layout of that moment; an item without a slot is dropped.
RepairResultIsKeptThenMoved ==
    (call = "fixHorizontalOverflows" /\ OverlapFree(layout)) =>
        /\ ret.tag = "ok"
        /\ Shapes(ret.value) =
              Shapes(Staying(grid, layout, Len(layout)) \o MovedFrom(grid, layout, <<>>, 1))

\* of two overflowing items the first was relocated and the second, finding
\* no slot left, was dropped
RepairResultIsKeptThenMovedWitness ==
    /\ call = "fixHorizontalOverflows" /\ OverlapFree(layout) /\ ret.tag = "ok"
    /\ Len(layout) = 2 /\ \A k \in 1 .. 2 : SticksOut(grid, layout[k])
    /\ Len(ret.value) = 1 /\ ret.value[1].id = 1

(* -------------------------------- C9 ----------------------------------- *)
\* C9: on a layout with non-negative coordinates in which no two items
\* share a cell of the grid, fixHorizontalOverflows throws nothing and every
\* item of its result lies inside the grid and shares no cell with another.
RepairResultIsValid ==
    (call = "fixHorizontalOverflows" /\ NonNegative(layout)
        /\ OverlapFreeInGrid(grid, layout)) =>
        /\ ret.tag = "ok"
        /\ \A k \in DOMAIN ret.value : Inside(grid, ret.value[k])
        /\ OverlapFree(ret.value)

\* an item that stuck out of the grid was moved next to one that stayed
RepairResultIsValidWitness ==
    /\ call = "fixHorizontalOverflows" /\ OverlapFreeInGrid(grid, layout)
    /\ ret.tag = "ok" /\ Len(ret.value) = 2
    /\ ~SticksOut(grid, layout[1]) /\ SticksOut(grid, layout[2])
    /\ Cells(layout[2]) \cap InGrid(grid) # {}

(* -------------------------------- C6 ----------------------------------- *)
\* C6: snapToSector returns every cell of the grid exactly once, each with
\* pixel position (x * boxSize, y * boxSize), in an order along which the
\* distance from the query never decreases and cells at equal distance keep
\* the row-major order.
SnapRankingIsSortedAndStable ==
    call = "snapToSector" =>
        /\ ret.tag = "ok"
        /\ Len(ret.value) = grid.rows * grid.columns
        /\ {<<ret.value[k].position.x, ret.value[k].position.y>> : k \in DOMAIN ret.value}
              = InGrid(grid)
        /\ \A k \in DOMAIN ret.value :
              ret.value[k].pixelPosition =
                  [x |-> ret.value[k].position.x * grid.boxSize,
                   y |-> ret.value[k].position.y * grid.boxSize]
        /\ \A i \in DOMAIN ret.value, j \in DOMAIN ret.value :
              i < j =>
                LET a == ret.value[i]
                    b == ret.value[j]
                    da == SquaredDistance(a.pixelPosition, position)
                    db == SquaredDistance(b.pixelPosition, position)
                IN  /\ da <= db
                    /\ da = db =>
                          \/ a.position.y < b.position.y
                          \/ a.position.y = b.position.y /\ a.position.x < b.position.x

\* the ranking starts at another cell than the enumeration does and holds
\* two cells at the same distance
SnapRankingIsSortedAndStableWitness ==
    /\ call = "snapToSector" /\ ret.tag = "ok" /\ Len(ret.value) >= 3
    /\ ret.value[1].position # [x |-> 0, y |-> 0]
    /\ \E i \in DOMAIN ret.value, j \in DOMAIN ret.value :
          /\ i < j
          /\ SquaredDistance(ret.value[i].pixelPosition, position)
                = SquaredDistance(ret.value[j].pixelPosition, position)

(* -------------------------------- C7 ----------------------------------- *)
\* C7: layoutTo2DArray ignores every covered cell outside the grid, cells at
\* negative coordinates included: no such cell makes the call throw, and the
\* matrix has rows rows of columns cells, a cell being true exactly when an
\* item covers it.
OutsideCellsAreIgnored ==
    call = "layoutTo2DArray" =>
        /\ ret.tag # "TypeError"
        /\ ret.tag = "Error" => ~allowOverlay /\ SharedCells(layout) \cap InGrid(grid) # {}
        /\ ret.tag = "ok" =>
              /\ Length(ret.value) = grid.rows
              /\ \A y \in 0 .. grid.rows - 1 :
                    /\ Length(ret.value[y]) = grid.columns
                    /\ \A x \in 0 .. grid.columns - 1 :
                          ret.value[y][x] = (<<x, y>> \in Covered(layout))

(* -------------------------------- C8 ----------------------------------- *)
\* C8: willItemOverlay returns true exactly when a cell of the candidate lies
\* inside the matrix and is occupied, at any position of the candidate,
\* negative coordinates included, and never throws.
OverlayIffOccupiedCellInside ==
    call = "willItemOverlay" =>
        /\ ret.tag = "ok"
        /\ ret.value =
              (\E c \in Cells(item) :
                  /\ c[2] \in DOMAIN arr
                  /\ c[1] \in DOMAIN arr[c[2]]
                  /\ arr[c[2]][c[1]])

(* -------------------------------- C10 ---------------------------------- *)
LastValue(calls) == IF calls = <<>> THEN FALSE ELSE calls[Len(calls)].value

\* one handler: called at notification k exactly when the status measured
\* there differs from the one measured before (false before the first), with
\* the new status
CalledOnChange(calls, status) ==
    /\ \A k \in DOMAIN status :
          (\E c \in DOMAIN calls : calls[c].at = k)
              <=> status[k] # (IF k = 1 THEN FALSE ELSE status[k - 1])
    /\ \A c \in DOMAIN calls :
          /\ calls[c].value = status[calls[c].at]
          /\ calls[c].value = (c % 2 = 1)
          /\ \A d \in DOMAIN calls : c < d => calls[c].at < calls[d].at
    /\ status # <<>> => LastValue(calls) = status[Len(status)]

\* the statuses the notifications measured, per axis
HorizontalStatus == [k \in DOMAIN measured |-> measured[k].horizontal]
VerticalStatus == [k \in DOMAIN measured |-> measured[k].vertical]

\* C10: with both handlers supplied, each handler is called on a resize
\* notification exactly when the overflow status measured on its axis differs
\* from the one measured by the previous notification (false at first); the
\* values it receives alternate from true, and the last one (false if none)
\* is the status measured last.
HandlersFollowMeasuredStatus ==
    (onHorizontalOverflowStatusChange /\ onVerticalOverflowStatusChange) =>
        /\ CalledOnChange(horizontalCalls, HorizontalStatus)
        /\ CalledOnChange(verticalCalls, VerticalStatus)

\* the horizontal handler was told true, false and true again while the
\* vertical one was called once, at a notification of its own
HandlersFollowMeasuredStatusWitness ==
    /\ onHorizontalOverflowStatusChange /\ onVerticalOverflowStatusChange
    /\ Len(horizontalCalls) = 3 /\ Len(verticalCalls) = 1
    /\ \A c \in DOMAIN horizontalCalls : horizontalCalls[c].at # verticalCalls[1].at

====
